---- MODULE Spec2Model ----
(***************************************************************************)
(* Model of docker/docker_image.go: the paginated retrieval of a           *)
(* repository's tag list (MakeRepositoryTagsRequest, GetRepositoryTags).   *)
(*                                                                         *)
(* Strings are sequences of one-character strings.  A Go slice is a record *)
(* [nil, elems]: a nil slice and an empty non-nil slice are different      *)
(* values with the same elements, as in Go.                                *)
(***************************************************************************)
EXTENDS Integers, Sequences, FiniteSets, TLC

VARIABLES
    pc,        \* position of the one call of GetRepositoryTags
    path,      \* local `path` of GetRepositoryTags
    result,    \* local `result` of GetRepositoryTags (a slice)
    res,       \* the response held by MakeRepositoryTagsRequest: <<>> or <<r>>
    ret,       \* what MakeRepositoryTagsRequest last returned
    out,       \* what GetRepositoryTags returned (meaningful when pc = "done")
    requests,  \* history: the paths given to makeRequest, in order
    fetched,   \* history: the outcome of each makeRequest, in order
    opened,    \* history: number of response bodies acquired
    closed,    \* history: number of Body.Close() calls executed
    other      \* a second call of GetRepositoryTags while it does not run: its
               \* locals and history, or NoOther when there is one call only

vars == <<pc, path, result, res, ret, out, requests, fetched, opened, closed, other>>

----------------------------------------------------------------------------
(* Bounds *)

\* the most requests one call may issue in the model
MaxPages == 3

----------------------------------------------------------------------------
(* Go values *)

StatusOK == 200

NilSlice == [nil |-> TRUE, elems |-> <<>>]

MkSlice(s) == [nil |-> FALSE, elems |-> s]

\* append(a, b...): appending no element returns a itself (nil stays nil)
GoAppend(a, b) == IF Len(b.elems) = 0 THEN a ELSE MkSlice(a.elems \o b.elems)

NoErr == [kind |-> "nil", code |-> 0]

\* the errors makeRequest may return
TransportErrs == {[kind |-> "dial tcp", code |-> 0], [kind |-> "timeout", code |-> 0]}

\* the errors json Decode may return
DecodeErrs == {[kind |-> "json syntax", code |-> 0], [kind |-> "unexpected EOF", code |-> 0]}

\* errors.Errorf("Invalid status code returned when fetching tags list %d", code)
StatusErr(code) == [kind |-> "status", code |-> code]

\* errors.Errorf("Could not parse link header in response when fetching tags list")
LinkErr == [kind |-> "link", code |-> 0]

\* the error of url.Parse
UrlErr == [kind |-> "url", code |-> 0]

----------------------------------------------------------------------------
(* Strings *)

\* strings.Index for a single character: the first position of c in s, or 0
Index(s, c) ==
    IF \E i \in 1..Len(s) : s[i] = c
    THEN CHOOSE i \in 1..Len(s) : s[i] = c /\ \A j \in 1..(i-1) : s[j] # c
    ELSE 0

\* strings.LastIndex for a single character, or 0
LastIndex(s, c) ==
    IF \E i \in 1..Len(s) : s[i] = c
    THEN CHOOSE i \in 1..Len(s) : s[i] = c /\ \A j \in (i+1)..Len(s) : s[j] # c
    ELSE 0

Count(s, c) == Cardinality({i \in 1..Len(s) : s[i] = c})

HasPrefix(s, p) == Len(s) >= Len(p) /\ SubSeq(s, 1, Len(p)) = p

From(s, i) == SubSeq(s, i, Len(s))

Letters == {"a", "b", "c", "d", "e", "f", "g", "h", "i", "j", "k", "l", "m",
            "n", "o", "p", "q", "r", "s", "t", "u", "v", "w", "x", "y", "z"}

Digits == {"0", "1", "2", "3", "4", "5", "6", "7", "8", "9"}

----------------------------------------------------------------------------
(* regexp: nextLinkRegexp = \A<(.+)>;(.+)\z *)

\* mutant: the groups may be empty, as with <(.*)>;(.*)
ClosePositions_EmptyGroups(s) ==
    {i \in 2..(Len(s) - 1) : s[i] = ">" /\ s[i+1] = ";"}

\* the positions i of a ">" directly followed by ";" that leave at least one
\* character for each of the two groups
ClosePositions(s) ==
    {i \in 3..(Len(s) - 2) : s[i] = ">" /\ s[i+1] = ";"}

\* mutant: the first group is not greedy, as with <(.+?)>;(.+)
FindStringSubmatch_Lazy(s) ==
    IF /\ Len(s) >= 1
       /\ s[1] = "<"
       /\ \A i \in 1..Len(s) : s[i] # "\n"
       /\ ClosePositions(s) # {}
    THEN LET i == CHOOSE k \in ClosePositions(s) :
                      \A j \in ClosePositions(s) : k <= j
         IN  [matched |-> TRUE, url |-> SubSeq(s, 2, i - 1)]
    ELSE [matched |-> FALSE, url |-> <<>>]

\* nextLinkRegexp.FindStringSubmatch(s): "." matches no newline, and the first
\* group is greedy, so it ends at the last ">;" that lets the rest match
FindStringSubmatch(s) ==
    IF /\ Len(s) >= 1
       /\ s[1] = "<"
       /\ \A i \in 1..Len(s) : s[i] # "\n"
       /\ ClosePositions(s) # {}
    THEN LET i == CHOOSE k \in ClosePositions(s) :
                      \A j \in ClosePositions(s) : j <= k
         IN  [matched |-> TRUE, url |-> SubSeq(s, 2, i - 1)]
    ELSE [matched |-> FALSE, url |-> <<>>]

----------------------------------------------------------------------------
(* net/url: url.Parse, for URLs without "%", "@", "[" and upper-case letters *)

\* a character that may continue a scheme at position i
SchemeChar(c, i) == c \in Letters \/ (i > 1 /\ c \in Digits \cup {"+", "-", "."})

\* getScheme: [err, scheme, rest]
GetScheme(raw) ==
    LET stops == {i \in 1..Len(raw) : ~SchemeChar(raw[i], i)}
    IN  IF stops = {}
        THEN [err |-> FALSE, scheme |-> <<>>, rest |-> raw]
        ELSE LET k == CHOOSE i \in stops : \A j \in stops : i <= j
             IN  IF raw[k] # ":"
                 THEN [err |-> FALSE, scheme |-> <<>>, rest |-> raw]
                 ELSE IF k = 1
                      THEN [err |-> TRUE, scheme |-> <<>>, rest |-> <<>>]
                      ELSE [err |-> FALSE, scheme |-> SubSeq(raw, 1, k - 1),
                            rest |-> From(raw, k + 1)]

\* the split of the text after the scheme at its first "?": [rest, query]
SplitQuery(s) ==
    LET q == Index(s, "?")
    IN  IF q = 0 THEN [rest |-> s, query |-> <<>>]
        ELSE [rest |-> SubSeq(s, 1, q - 1), query |-> From(s, q + 1)]

\* validOptionalPort: "" or ":" followed by digits only
ValidOptionalPort(p) ==
    p = <<>> \/ (p[1] = ":" /\ \A i \in 2..Len(p) : p[i] \in Digits)

\* parseAuthority / parseHost succeed: no character that a host may not hold
\* (of the characters modelled, the space) and a well-formed port (the port
\* is validated by net/url of Go 1.12 and later; no Link value of the
\* registry below has one)
HostValid(authority) ==
    /\ \A i \in 1..Len(authority) : authority[i] # " "
    /\ LET c == LastIndex(authority, ":")
       IN  c = 0 \/ ValidOptionalPort(From(authority, c))

\* the first path segment of a relative URL holds a colon
ColonInFirstSegment(rest) ==
    LET colon == Index(rest, ":")
        slash == Index(rest, "/")
    IN  colon > 0 /\ (slash = 0 \/ colon < slash)

UrlFail == [err |-> TRUE, Path |-> <<>>, RawQuery |-> <<>>]

\* url.Parse(rawurl): the fragment is cut off, then scheme, query, authority
\* and path are taken apart; [err, Path, RawQuery]
UrlParse(rawurl) ==
    LET h  == Index(rawurl, "#")
        u  == IF h = 0 THEN rawurl ELSE SubSeq(rawurl, 1, h - 1)
        sc == GetScheme(u)
        sq == SplitQuery(sc.rest)
        rest == sq.rest
    IN  IF sc.err THEN UrlFail
        ELSE IF ~HasPrefix(rest, <<"/">>)
        THEN IF sc.scheme # <<>>
             THEN [err |-> FALSE, Path |-> <<>>, RawQuery |-> sq.query]
             ELSE IF ColonInFirstSegment(rest) THEN UrlFail
                  ELSE [err |-> FALSE, Path |-> rest, RawQuery |-> sq.query]
        ELSE IF /\ HasPrefix(rest, <<"/", "/">>)
                /\ (sc.scheme # <<>> \/ ~HasPrefix(rest, <<"/", "/", "/">>))
        THEN LET after == From(rest, 3)
                 s     == Index(after, "/")
                 auth  == IF s = 0 THEN after ELSE SubSeq(after, 1, s - 1)
                 p     == IF s = 0 THEN <<>> ELSE From(after, s)
             IN  IF HostValid(auth)
                 THEN [err |-> FALSE, Path |-> p, RawQuery |-> sq.query]
                 ELSE UrlFail
        ELSE [err |-> FALSE, Path |-> rest, RawQuery |-> sq.query]

\* mutant: the "?" is left out when the query is empty
SprintfPathQuery_OmitEmptyQuery(p, q) == IF q = <<>> THEN p ELSE p \o <<"?">> \o q

\* fmt.Sprintf("%s?%s", u.Path, u.RawQuery)
SprintfPathQuery(p, q) == p \o <<"?">> \o q

----------------------------------------------------------------------------
(* The registry: what makeRequest may answer *)

\* tagsPath, "/v2/%s/tags/list", applied to the repository path "r"
TagsPath ==
    <<"/", "v", "2", "/">> \o <<"r">> \o <<"/", "t", "a", "g", "s", "/", "l", "i", "s", "t">>

\* </v2/r/tags/list?next=2>; rel="next"
LinkNext2 ==
    <<"<", "/", "v", "2", "/", "r", "/", "t", "a", "g", "s", "/", "l", "i", "s", "t",
      "?", "n", "e", "x", "t", "=", "2", ">", ";", " ", "r", "e", "l", "=", "\"",
      "n", "e", "x", "t", "\"">>

\* /v2/r/tags/list?next=2
PathNext2 ==
    <<"/", "v", "2", "/", "r", "/", "t", "a", "g", "s", "/", "l", "i", "s", "t",
      "?", "n", "e", "x", "t", "=", "2">>

\* <http://h/p>;x : an absolute URL with no query
LinkAbsolute == <<"<", "h", "t", "t", "p", ":", "/", "/", "h", "/", "p", ">", ";", "x">>

\* malformed-value
LinkMalformed ==
    <<"m", "a", "l", "f", "o", "r", "m", "e", "d", "-", "v", "a", "l", "u", "e">>

\* <:a>;x : the shape matches, the URL does not parse
LinkBadUrl == <<"<", ":", "a", ">", ";", "x">>

\* <a>;b>;c : two ">;" in one value
LinkGreedy == <<"<", "a", ">", ";", "b", ">", ";", "c">>

\* </o?n=3>;y
LinkOther == <<"<", "/", "o", "?", "n", "=", "3", ">", ";", "y">>

\* the values a Link header may carry first
FirstLinks == {LinkNext2, LinkAbsolute, LinkMalformed, LinkBadUrl, LinkGreedy}

\* the values that may follow the first one
MoreLinks == {LinkOther, LinkMalformed}

\* res.Header["Link"]: absent, one value, or two values
LinkLists ==
    {<<>>} \cup {<<l>> : l \in FirstLinks}
           \cup {<<l, m>> : l \in {LinkNext2, LinkMalformed}, m \in MoreLinks}

\* what json.Decode leaves in tagsRes.Tags: nil when the body has no Tags
\* field or a null one, a non-nil slice for an array (an empty one for [])
TagBodies ==
    {NilSlice, MkSlice(<<>>), MkSlice(<<"a">>), MkSlice(<<"b", "a">>)}

ErrorStatuses == {404, 500}

\* makeRequest returned the error e: no response
TransportFailure(e) ==
    [transport |-> TRUE, err |-> e, status |-> 0, tags |-> NilSlice, links |-> <<>>]

\* a response with status st and header Link: ls, whose body makes Decode
\* return e and leave tg in tagsRes.Tags
HttpResponse(st, e, tg, ls) ==
    [transport |-> FALSE, err |-> e, status |-> st, tags |-> tg, links |-> ls]

\* the responses makeRequest may deliver
Responses ==
    {HttpResponse(st, NoErr, MkSlice(<<"a">>), <<LinkNext2>>) : st \in ErrorStatuses}
    \cup {HttpResponse(StatusOK, e, NilSlice, <<LinkNext2>>) : e \in DecodeErrs}
    \cup {HttpResponse(StatusOK, NoErr, tg, ls) : tg \in TagBodies, ls \in LinkLists}

----------------------------------------------------------------------------
(* State *)

ZeroRet == [tags |-> NilSlice, links |-> <<>>, err |-> NoErr]

ZeroOut == [result |-> NilSlice, err |-> NoErr]

\* there is no second call
NoOther == [id |-> 0]

\* GetRepositoryTags has been entered: result is nil, path is the tag-listing
\* path, and the loop is about to call MakeRepositoryTagsRequest
Init ==
    /\ pc = "call"
    /\ path = TagsPath
    /\ result = NilSlice
    /\ res = <<>>
    /\ ret = ZeroRet
    /\ out = ZeroOut
    /\ requests = <<>>
    /\ fetched = <<>>
    /\ opened = 0
    /\ closed = 0
    /\ other = NoOther

----------------------------------------------------------------------------
(* MakeRepositoryTagsRequest *)

\* mutant: a second request is sent along with the first, ahead of need
SendRequest_Twice ==
    /\ pc = "call"
    /\ Len(requests) < MaxPages
    /\ requests' = requests \o <<path, path>>
    /\ pc' = "sent"
    /\ UNCHANGED <<path, result, res, ret, out, fetched, opened, closed, other>>

\* makeRequest(ctx, "GET", path, nil, nil) is called: the request goes out
SendRequest ==
    /\ pc = "call"
    /\ Len(requests) < MaxPages
    /\ requests' = Append(requests, path)
    /\ pc' = "sent"
    /\ UNCHANGED <<path, result, res, ret, out, fetched, opened, closed, other>>

\* makeRequest returns an error: return nil, nil, err
TransportFails ==
    /\ pc = "sent"
    /\ \E e \in TransportErrs :
          /\ fetched' = Append(fetched, TransportFailure(e))
          /\ ret' = [tags |-> NilSlice, links |-> <<>>, err |-> e]
    /\ pc' = "ret"
    /\ UNCHANGED <<path, result, res, out, requests, opened, closed, other>>

\* makeRequest returns a response; its body is now held and its Close deferred
ReceiveResponse ==
    /\ pc = "sent"
    /\ \E r \in Responses :
          /\ fetched' = Append(fetched, r)
          /\ res' = <<r>>
    /\ opened' = opened + 1
    /\ pc' = "status"
    /\ UNCHANGED <<path, result, ret, out, requests, closed, other>>

\* mutant: the status is not looked at
CheckStatus_NoAbort ==
    /\ pc = "status"
    /\ pc' = "decode"
    /\ UNCHANGED <<path, result, res, ret, out, requests, fetched, opened, closed, other>>

\* mutant: the body is closed on the success path only
CheckStatus_NoClose ==
    /\ pc = "status"
    /\ IF res[1].status # StatusOK
       THEN /\ ret' = [tags |-> NilSlice, links |-> <<>>,
                       err |-> StatusErr(res[1].status)]
            /\ res' = <<>>
            /\ pc' = "ret"
       ELSE /\ pc' = "decode"
            /\ UNCHANGED <<ret, res>>
    /\ UNCHANGED <<path, result, out, requests, fetched, opened, closed, other>>

\* the status check; on a status other than 200 the function returns the
\* status error and the deferred Close runs
CheckStatus ==
    /\ pc = "status"
    /\ IF res[1].status # StatusOK
       THEN /\ ret' = [tags |-> NilSlice, links |-> <<>>,
                       err |-> StatusErr(res[1].status)]
            /\ closed' = closed + 1
            /\ res' = <<>>
            /\ pc' = "ret"
       ELSE /\ pc' = "decode"
            /\ UNCHANGED <<ret, closed, res>>
    /\ UNCHANGED <<path, result, out, requests, fetched, opened, other>>

\* mutant: the error of Decode is dropped
DecodeBody_ErrorDropped ==
    /\ pc = "decode"
    /\ ret' = [tags |-> res[1].tags, links |-> res[1].links, err |-> NoErr]
    /\ closed' = closed + 1
    /\ res' = <<>>
    /\ pc' = "ret"
    /\ UNCHANGED <<path, result, out, requests, fetched, opened, other>>

\* json.NewDecoder(res.Body).Decode(tags), then the return of the decode error
\* or of (tags.Tags, res.Header["Link"], nil); the deferred Close runs
DecodeBody ==
    /\ pc = "decode"
    /\ IF res[1].err # NoErr
       THEN ret' = [tags |-> NilSlice, links |-> <<>>, err |-> res[1].err]
       ELSE ret' = [tags |-> res[1].tags, links |-> res[1].links, err |-> NoErr]
    /\ closed' = closed + 1
    /\ res' = <<>>
    /\ pc' = "ret"
    /\ UNCHANGED <<path, result, out, requests, fetched, opened, other>>

----------------------------------------------------------------------------
(* GetRepositoryTags *)

\* mutant: a page without tags ends the call, as a nil one does
LoopBody_EmptyStops(curPath, curResult, r) ==
    IF Len(r.tags.elems) = 0
    THEN [pc |-> "done", path |-> curPath, result |-> curResult,
          out |-> [result |-> NilSlice, err |-> r.err]]
    ELSE LET appended == GoAppend(curResult, r.tags)
         IN  IF Len(r.links) < 1
             THEN [pc |-> "done", path |-> curPath, result |-> appended,
                   out |-> [result |-> appended, err |-> NoErr]]
             ELSE LET match == FindStringSubmatch(r.links[1])
                  IN  IF match.matched
                      THEN LET u == UrlParse(match.url)
                           IN  IF u.err
                               THEN [pc |-> "done", path |-> curPath,
                                     result |-> appended,
                                     out |-> [result |-> NilSlice, err |-> UrlErr]]
                               ELSE [pc |-> "call",
                                     path |-> SprintfPathQuery(u.Path, u.RawQuery),
                                     result |-> appended, out |-> ZeroOut]
                      ELSE [pc |-> "done", path |-> curPath, result |-> appended,
                            out |-> [result |-> NilSlice, err |-> LinkErr]]

\* mutant: the last Link value is taken instead of the first
LoopBody_LastLink(curPath, curResult, r) ==
    IF r.tags.nil
    THEN [pc |-> "done", path |-> curPath, result |-> curResult,
          out |-> [result |-> NilSlice, err |-> r.err]]
    ELSE LET appended == GoAppend(curResult, r.tags)
         IN  IF Len(r.links) < 1
             THEN [pc |-> "done", path |-> curPath, result |-> appended,
                   out |-> [result |-> appended, err |-> NoErr]]
             ELSE LET match == FindStringSubmatch(r.links[Len(r.links)])
                  IN  IF match.matched
                      THEN LET u == UrlParse(match.url)
                           IN  IF u.err
                               THEN [pc |-> "done", path |-> curPath,
                                     result |-> appended,
                                     out |-> [result |-> NilSlice, err |-> UrlErr]]
                               ELSE [pc |-> "call",
                                     path |-> SprintfPathQuery(u.Path, u.RawQuery),
                                     result |-> appended, out |-> ZeroOut]
                      ELSE [pc |-> "done", path |-> curPath, result |-> appended,
                            out |-> [result |-> NilSlice, err |-> LinkErr]]

\* mutant: the fetch is taken as failed when err is not nil
LoopBody_ErrCheck(curPath, curResult, r) ==
    IF r.err # NoErr
    THEN [pc |-> "done", path |-> curPath, result |-> curResult,
          out |-> [result |-> NilSlice, err |-> r.err]]
    ELSE LET appended == GoAppend(curResult, r.tags)
         IN  IF Len(r.links) < 1
             THEN [pc |-> "done", path |-> curPath, result |-> appended,
                   out |-> [result |-> appended, err |-> NoErr]]
             ELSE LET match == FindStringSubmatch(r.links[1])
                  IN  IF match.matched
                      THEN LET u == UrlParse(match.url)
                           IN  IF u.err
                               THEN [pc |-> "done", path |-> curPath,
                                     result |-> appended,
                                     out |-> [result |-> NilSlice, err |-> UrlErr]]
                               ELSE [pc |-> "call",
                                     path |-> SprintfPathQuery(u.Path, u.RawQuery),
                                     result |-> appended, out |-> ZeroOut]
                      ELSE [pc |-> "done", path |-> curPath, result |-> appended,
                            out |-> [result |-> NilSlice, err |-> LinkErr]]

\* mutant: done is not set on a page without Link values
LoopBody_NeverDone(curPath, curResult, r) ==
    IF r.tags.nil
    THEN [pc |-> "done", path |-> curPath, result |-> curResult,
          out |-> [result |-> NilSlice, err |-> r.err]]
    ELSE LET appended == GoAppend(curResult, r.tags)
         IN  IF Len(r.links) < 1
             THEN [pc |-> "call", path |-> curPath, result |-> appended,
                   out |-> ZeroOut]
             ELSE LET match == FindStringSubmatch(r.links[1])
                  IN  IF match.matched
                      THEN LET u == UrlParse(match.url)
                           IN  IF u.err
                               THEN [pc |-> "done", path |-> curPath,
                                     result |-> appended,
                                     out |-> [result |-> NilSlice, err |-> UrlErr]]
                               ELSE [pc |-> "call",
                                     path |-> SprintfPathQuery(u.Path, u.RawQuery),
                                     result |-> appended, out |-> ZeroOut]
                      ELSE [pc |-> "done", path |-> curPath, result |-> appended,
                            out |-> [result |-> NilSlice, err |-> LinkErr]]

\* the loop body after MakeRepositoryTagsRequest has returned (tags,
\* linkValue, err), up to the next call or the return: [pc, path, result, out]
LoopBody(curPath, curResult, r) ==
    IF r.tags.nil
    THEN [pc |-> "done", path |-> curPath, result |-> curResult,
          out |-> [result |-> NilSlice, err |-> r.err]]
    ELSE LET appended == GoAppend(curResult, r.tags)
         IN  IF Len(r.links) < 1
             THEN [pc |-> "done", path |-> curPath, result |-> appended,
                   out |-> [result |-> appended, err |-> NoErr]]
             ELSE LET match == FindStringSubmatch(r.links[1])
                  IN  IF match.matched
                      THEN LET u == UrlParse(match.url)
                           IN  IF u.err
                               THEN [pc |-> "done", path |-> curPath,
                                     result |-> appended,
                                     out |-> [result |-> NilSlice, err |-> UrlErr]]
                               ELSE [pc |-> "call",
                                     path |-> SprintfPathQuery(u.Path, u.RawQuery),
                                     result |-> appended, out |-> ZeroOut]
                      ELSE [pc |-> "done", path |-> curPath, result |-> appended,
                            out |-> [result |-> NilSlice, err |-> LinkErr]]

\* mutant: a ceiling of two pages, after which the aggregate is returned
Paginate_PageLimit ==
    /\ pc = "ret"
    /\ LET n == LoopBody(path, result, ret)
       IN  IF n.pc = "call" /\ Len(requests) >= 2
           THEN /\ pc' = "done"
                /\ path' = n.path
                /\ result' = n.result
                /\ out' = [result |-> n.result, err |-> NoErr]
           ELSE /\ pc' = n.pc
                /\ path' = n.path
                /\ result' = n.result
                /\ out' = n.out
    /\ UNCHANGED <<res, ret, requests, fetched, opened, closed, other>>

\* one pass of the loop after the fetch
Paginate ==
    /\ pc = "ret"
    /\ LET n == LoopBody(path, result, ret)
       IN  /\ pc' = n.pc
           /\ path' = n.path
           /\ result' = n.result
           /\ out' = n.out
    /\ UNCHANGED <<res, ret, requests, fetched, opened, closed, other>>

Next ==
    \/ SendRequest
    \/ TransportFails
    \/ ReceiveResponse
    \/ CheckStatus
    \/ DecodeBody
    \/ Paginate

Spec == Init /\ [][Next]_vars

----------------------------------------------------------------------------
(* Vocabulary of the properties *)

Last(s) == s[Len(s)]

AllButLast(s) == SubSeq(s, 1, Len(s) - 1)

\* the fetch of page p returned a nil error: a response came, its status was
\* 200 and its body decoded
Succeeded(p) == ~p.transport /\ p.status = StatusOK /\ p.err = NoErr

\* the Link value l has the shape <URL>;metadata and its URL parses
ValidContinuation(l) ==
    FindStringSubmatch(l).matched /\ ~UrlParse(FindStringSubmatch(l).url).err

\* the tags of the pages ps, page after page
RECURSIVE ConcatTags(_)
ConcatTags(ps) ==
    IF ps = <<>> THEN <<>> ELSE ps[1].tags.elems \o ConcatTags(Tail(ps))

\* the page p has been fetched last and the loop body has dealt with it
Processed == fetched # <<>> /\ pc \in {"call", "sent", "done"}

\* a page whose body is {"Tags":[]}
EmptyPage(p) == Succeeded(p) /\ ~p.tags.nil /\ p.tags.elems = <<>>

HasTags(p) == Succeeded(p) /\ p.tags.elems # <<>>

Returned(r, e) == pc = "done" /\ out = [result |-> r, err |-> e]

----------------------------------------------------------------------------
(* Properties *)

\* C1 (as stated): when the call has returned and every fetch succeeded with a
\* well-formed continuation header or none, the last page fetched is the page
\* without a header, no error is returned, the result is the concatenation of
\* the pages' tags in page order, and request n+1 went to the path page n
\* pointed to, one request per page.
C1_ChainAggregated ==
    ( /\ pc = "done"
      /\ \A i \in 1..Len(fetched) :
            /\ Succeeded(fetched[i])
            /\ fetched[i].links # <<>> => ValidContinuation(fetched[i].links[1]) )
    => /\ Last(fetched).links = <<>>
       /\ out.err = NoErr
       /\ out.result.elems = ConcatTags(fetched)
       /\ Len(requests) = Len(fetched)

\* C2 (as stated): every return is either a failure with a nil result, or a
\* nil error with the tags of all pages of the chain: of every page fetched,
\* the last of which has no Link value that points to a further page.
C2_AllOrNothing ==
    pc = "done" =>
       \/ out.err # NoErr /\ out.result.nil
       \/ /\ out.err = NoErr
          /\ out.result.elems = ConcatTags(fetched)
          /\ Last(fetched).links # <<>> => ~ValidContinuation(Last(fetched).links[1])

\* C3 (as stated): the call does not return at a successfully fetched page
\* whose first Link value is a valid continuation, and a nil error is returned
\* only at a page without Link values.
C3_NoEarlyStop ==
    /\ ~( /\ pc = "done"
          /\ Succeeded(Last(fetched))
          /\ Last(fetched).links # <<>>
          /\ ValidContinuation(Last(fetched).links[1]) )
    /\ (pc = "done" /\ out.err = NoErr) => Last(fetched).links = <<>>

\* C4: once a response with a status other than 200 has come, the body is not
\* decoded, no further request goes out, MakeRepositoryTagsRequest returns
\* (nil, nil, status error with that code) and GetRepositoryTags returns
\* (nil, that error), whatever was fetched before.
C4_StatusAborts ==
    ( /\ fetched # <<>>
      /\ ~Last(fetched).transport
      /\ Last(fetched).status # StatusOK )
    => /\ pc \in {"status", "ret", "done"}
       /\ Len(requests) = Len(fetched)
       /\ pc \in {"ret", "done"} =>
             ret = [tags |-> NilSlice, links |-> <<>>,
                    err |-> StatusErr(Last(fetched).status)]
       /\ pc = "done" =>
             out = [result |-> NilSlice, err |-> StatusErr(Last(fetched).status)]

\* a status error after pages with tags
C4_Witness ==
    /\ Len(fetched) = 3
    /\ HasTags(fetched[1]) /\ HasTags(fetched[2])
    /\ Last(fetched).status = 500
    /\ Returned(NilSlice, StatusErr(500))

\* C5 (as stated): when the first Link value of a successfully fetched page
\* does not have the shape <...>;..., the call returns the malformed-link
\* error and a nil result.
C5_MalformedLinkFails ==
    ( /\ pc = "done"
      /\ Succeeded(Last(fetched))
      /\ Last(fetched).links # <<>>
      /\ ~FindStringSubmatch(Last(fetched).links[1]).matched )
    => out = [result |-> NilSlice, err |-> LinkErr]

\* C6: once a fetch has failed in the transport or in the decoding of a 200
\* body, no further request goes out, MakeRepositoryTagsRequest returns
\* (nil, nil, the underlying error) and GetRepositoryTags returns (nil, the same
\* error), whatever was fetched before.
C6_FetchErrorPropagates ==
    ( /\ fetched # <<>>
      /\ Last(fetched).err # NoErr
      /\ Last(fetched).transport \/ Last(fetched).status = StatusOK )
    => /\ pc \in {"status", "decode", "ret", "done"}
       /\ Len(requests) = Len(fetched)
       /\ pc \in {"ret", "done"} =>
             ret = [tags |-> NilSlice, links |-> <<>>, err |-> Last(fetched).err]
       /\ pc = "done" =>
             out = [result |-> NilSlice, err |-> Last(fetched).err]

\* a decode error after pages with tags
C6_Witness ==
    /\ Len(fetched) = 3
    /\ HasTags(fetched[1]) /\ HasTags(fetched[2])
    /\ ~Last(fetched).transport /\ Last(fetched).err \in DecodeErrs
    /\ Returned(NilSlice, Last(fetched).err)

\* C7: a page with an empty tag array leaves the aggregate as it was and is no
\* error: without a Link value the call returns the tags accumulated so far
\* with a nil error, with a valid first Link value the next page is requested
\* at the path it names, and the only errors after it are those of its Link
\* value; a call that has fetched an empty page and returns a nil error at a
\* page with a tag array returns the tags of all pages.
C7_EmptyPageValid ==
    /\ (Processed /\ EmptyPage(Last(fetched))) =>
          LET p == Last(fetched)
              before == ConcatTags(AllButLast(fetched))
          IN  /\ result.elems = before
              /\ p.links = <<>> =>
                    /\ pc = "done" /\ out.err = NoErr
                    /\ out.result.elems = before
              /\ (p.links # <<>> /\ ValidContinuation(p.links[1])) =>
                    /\ pc # "done"
                    /\ LET u == UrlParse(FindStringSubmatch(p.links[1]).url)
                       IN  path = u.Path \o <<"?">> \o u.RawQuery
              /\ pc = "done" => out.err \in {NoErr, LinkErr, UrlErr}
    /\ ( /\ pc = "done" /\ out.err = NoErr
         /\ ~Last(fetched).tags.nil
         /\ \E i \in 1..Len(fetched) : EmptyPage(fetched[i]) )
       => out.result.elems = ConcatTags(fetched)

\* an empty page between two pages with tags
C7_Witness ==
    /\ Len(fetched) = 3
    /\ HasTags(fetched[1]) /\ EmptyPage(fetched[2]) /\ HasTags(fetched[3])
    /\ Returned(MkSlice(fetched[1].tags.elems \o fetched[3].tags.elems), NoErr)

\* C8: what the loop body does with a page that carries Link values is what it
\* does with the same page carrying the first value only: the same next
\* position, next path, aggregate and return.
C8_OnlyFirstLink ==
    [][ (pc = "ret" /\ Len(ret.links) >= 1) =>
           LET n == LoopBody(path, result, [ret EXCEPT !.links = <<ret.links[1]>>])
           IN  <<pc', path', result', out'>> = <<n.pc, n.path, n.result, n.out>> ]_vars

\* a page with a valid first and a malformed second value has been followed,
\* and a page with a malformed first and a valid second value has failed
C8_Witness ==
    /\ Len(fetched) = 2
    /\ fetched[1].links = <<LinkNext2, LinkMalformed>>
    /\ requests[2] = PathNext2
    /\ fetched[2].links = <<LinkMalformed, LinkOther>>
    /\ Returned(NilSlice, LinkErr)

\* C9: the first request goes to the tag-listing path, which has no "?"; the
\* request after a page goes to the path of its first Link value's URL, a "?",
\* and that URL's query, whatever the path before was: /v2/r/tags/list?next=2
\* after </v2/r/tags/list?next=2>; rel="next", and /p? after <http://h/p>;x.
C9_RequestPaths ==
    /\ requests # <<>> => (requests[1] = TagsPath /\ Count(requests[1], "?") = 0)
    /\ \A i \in 1..(Len(requests) - 1) :
          LET l == fetched[i].links[1]
              u == UrlParse(FindStringSubmatch(l).url)
          IN  /\ requests[i+1] = u.Path \o <<"?">> \o u.RawQuery
              /\ l = LinkNext2 => requests[i+1] = PathNext2
              /\ l = LinkAbsolute => requests[i+1] = <<"/", "p", "?">>

\* the example's second request, then the request after an absolute URL
C9_Witness ==
    /\ Len(requests) = 3
    /\ fetched[1].links = <<LinkNext2>> /\ requests[2] = PathNext2
    /\ fetched[2].links = <<LinkAbsolute>> /\ requests[3] = <<"/", "p", "?">>

\* C10: a body is acquired with every response and with nothing else, no body
\* is closed that is not held, exactly one body is held while
\* MakeRepositoryTagsRequest looks at a response, and none is held between two
\* fetches or after the return.
C10_BodiesReleased ==
    /\ opened = Cardinality({i \in 1..Len(fetched) : ~fetched[i].transport})
    /\ closed <= opened
    /\ pc \in {"status", "decode"} => (opened = closed + 1 /\ Len(res) = 1)
    /\ pc \in {"call", "sent", "ret", "done"} => (opened = closed /\ res = <<>>)

\* three bodies acquired and released, the last on the status-error exit
C10_Witness ==
    /\ pc = "done"
    /\ Len(fetched) = 3
    /\ opened = 3 /\ closed = 3
    /\ Last(fetched).status # StatusOK


\* a 200 page whose body decodes without error and leaves Tags nil
NilTagsPage(p) == Succeeded(p) /\ p.tags.nil

\* C11: once a 200 page has been decoded without error with nil Tags, no
\* further request goes out and GetRepositoryTags returns (nil, nil): no error
\* and none of the tags accumulated before, also when the page carries a valid
\* Link value.
C11_NilTagsReturnsNilNil ==
    (fetched # <<>> /\ NilTagsPage(Last(fetched)))
    => /\ pc \in {"status", "decode", "ret", "done"}
       /\ Len(requests) = Len(fetched)
       /\ pc \in {"ret", "done"} =>
             ret = [tags |-> NilSlice, links |-> Last(fetched).links, err |-> NoErr]
       /\ pc = "done" => out = [result |-> NilSlice, err |-> NoErr]

\* a page with tags, then a nil-Tags page with a valid Link value
C11_Witness ==
    /\ Len(fetched) = 2
    /\ HasTags(fetched[1])
    /\ NilTagsPage(fetched[2])
    /\ fetched[2].links = <<LinkNext2>>
    /\ result.elems # <<>>
    /\ Returned(NilSlice, NoErr)

\* a page that keeps the pagination going: a tag array and a first Link value
\* that is a valid continuation
ContinuingPage(p) ==
    /\ Succeeded(p) /\ ~p.tags.nil
    /\ p.links # <<>> /\ ValidContinuation(p.links[1])

\* the path the first Link value of page p leads to
ContinuationPath(p) ==
    LET u == UrlParse(FindStringSubmatch(p.links[1]).url)
    IN  u.Path \o <<"?">> \o u.RawQuery

\* C12: as long as every page fetched is a continuing page the call has not
\* returned, however many pages that is: after each page the aggregate holds
\* the tags of all pages fetched and the next request is due at the path the
\* page names, also when that path was requested before.
C12_NoPageLimit ==
    (\A i \in 1..Len(fetched) : ContinuingPage(fetched[i]))
    => /\ pc # "done"
       /\ pc \in {"call", "sent"} => result.elems = ConcatTags(fetched)
       /\ (pc = "call" /\ fetched # <<>>) => path = ContinuationPath(Last(fetched))
       /\ \A i \in 2..Len(requests) : requests[i] = ContinuationPath(fetched[i-1])

\* a cycle: the page at /v2/r/tags/list?next=2 points to itself, is fetched
\* twice and its tags are in the aggregate twice, and the next request is due
\* at the same path again
C12_Witness ==
    /\ Len(fetched) = MaxPages
    /\ \A i \in 1..Len(fetched) : ContinuingPage(fetched[i])
    /\ \A i \in 2..Len(fetched) :
          /\ requests[i] = PathNext2
          /\ fetched[i].tags.elems = <<"b", "a">>
          /\ fetched[i].links = <<LinkNext2>>
    /\ pc = "call"
    /\ path = PathNext2
    /\ result.elems = ConcatTags(fetched)
    /\ Len(result.elems) >= 2 * (MaxPages - 1)

\* the requests sent and not yet answered
Outstanding == Len(requests) - Len(fetched)

\* C14: at most one request is outstanding, and one is outstanding exactly while
\* the call waits in makeRequest; when a request for a further page is
\* outstanding, the page before it has been received, decoded and released, it
\* is a continuing page whose tags are in the aggregate, and the request went
\* to the path its first Link value names.
C14_Sequential ==
    /\ Outstanding \in {0, 1}
    /\ Outstanding = 1 <=> pc = "sent"
    /\ pc = "sent" =>
          /\ res = <<>>
          /\ opened = closed
          /\ fetched # <<>> =>
                /\ ContinuingPage(Last(fetched))
                /\ ret = [tags |-> Last(fetched).tags, links |-> Last(fetched).links,
                          err |-> NoErr]
                /\ result.elems = ConcatTags(fetched)
                /\ Last(requests) = ContinuationPath(Last(fetched))

\* the third request is outstanding after two pages
C14_Witness ==
    /\ pc = "sent"
    /\ Len(requests) = 3
    /\ Len(fetched) = 2
    /\ opened = 2 /\ closed = 2

----------------------------------------------------------------------------
(* The Link handling over all short Link values *)

\* the longest Link value drawn from LinkAlphabet
MaxLinkLen == 7

LinkAlphabet == {"<", ">", ";", "a"}

RECURSIVE StringsOfLen(_)
StringsOfLen(n) ==
    IF n = 0 THEN {<<>>}
    ELSE {Append(s, c) : s \in StringsOfLen(n - 1), c \in LinkAlphabet}

\* <a>;:a>;a : two ">;", and the text up to the last one does not parse
LinkGreedyBadUrl == <<"<", "a", ">", ";", ":", "a", ">", ";", "a">>

\* the values of the first Link header value: every string over LinkAlphabet
\* up to MaxLinkLen, and the values of the registry above
LinkStrings ==
    UNION {StringsOfLen(n) : n \in 0..MaxLinkLen}
    \cup FirstLinks \cup {LinkOther, LinkGreedyBadUrl}

\* MakeRepositoryTagsRequest has just returned the first page, with the tag
\* "a" and one Link value
LinkInit ==
    /\ pc = "ret"
    /\ path = TagsPath
    /\ result = NilSlice
    /\ res = <<>>
    /\ out = ZeroOut
    /\ requests = <<TagsPath>>
    /\ opened = 1
    /\ closed = 1
    /\ other = NoOther
    /\ \E s \in LinkStrings :
          /\ fetched = <<HttpResponse(StatusOK, NoErr, MkSlice(<<"a">>), <<s>>)>>
          /\ ret = [tags |-> MkSlice(<<"a">>), links |-> <<s>>, err |-> NoErr]

LinkNext ==
    \/ Paginate
    \/ SendRequest

LinkSpec == LinkInit /\ [][LinkNext]_vars

\* s is "<", a non-empty text, ">;" and a non-empty text
HasLinkShape(s) ==
    \E i \in 3..(Len(s) - 2) :
       s = <<"<">> \o SubSeq(s, 2, i - 1) \o <<">", ";">> \o SubSeq(s, i + 2, Len(s))

\* a<a>;a, <>;a, <a>, <a>; and <a>a;a
RejectedExamples ==
    { <<"a", "<", "a", ">", ";", "a">>, <<"<", ">", ";", "a">>, <<"<", "a", ">">>,
      <<"<", "a", ">", ";">>, <<"<", "a", ">", "a", ";", "a">> }

\* C16: after the loop body has dealt with a page that has a tag array, the
\* call has failed with the malformed-link error exactly when the first Link
\* value is not "<", a non-empty text, ">;" and a non-empty text; then the
\* result is nil and no further request goes out.  The values with text before
\* "<", an empty URL, no semicolon, nothing after the semicolon, or text
\* between ">" and ";" are among them.
C16_LinkShape ==
    pc # "ret" =>
       LET s == fetched[1].links[1]
       IN  /\ HasLinkShape(s) <=> ~(pc = "done" /\ out.err = LinkErr)
           /\ ~HasLinkShape(s) => (Returned(NilSlice, LinkErr) /\ Len(requests) = 1)
           /\ s \in RejectedExamples => Returned(NilSlice, LinkErr)

\* <a>; , a bracketed URL with a semicolon and nothing after it, is rejected
C16_Witness ==
    /\ fetched[1].links = << <<"<", "a", ">", ";">> >>
    /\ Returned(NilSlice, LinkErr)
    /\ Len(requests) = 1

\* the number of ">;" in s
CountClose(s) == Cardinality({i \in 1..(Len(s) - 1) : s[i] = ">" /\ s[i+1] = ";"})

\* the position of the last ">;" of s that has a character after it
LastCloseWithRest(s) ==
    LET ps == {i \in 1..(Len(s) - 2) : s[i] = ">" /\ s[i+1] = ";"}
    IN  CHOOSE i \in ps : \A j \in ps : j <= i

\* C17: for a first Link value of the accepted shape with more than one ">;",
\* the URL is the text between the leading "<" and the last ">;" that has a
\* character after it: when it does not parse the call returns (nil, URL
\* error) and no further request goes out, otherwise the next path is that
\* URL's path, "?", and its query.  <a>;>;a leads to a>;? and <a>;:a>;a to the
\* URL error.
C17_GreedyUrl ==
    pc # "ret" =>
       LET s == fetched[1].links[1]
       IN  /\ (HasLinkShape(s) /\ CountClose(s) >= 2) =>
                 LET u == UrlParse(SubSeq(s, 2, LastCloseWithRest(s) - 1))
                 IN  IF u.err
                     THEN Returned(NilSlice, UrlErr) /\ Len(requests) = 1
                     ELSE /\ pc # "done"
                          /\ path = u.Path \o <<"?">> \o u.RawQuery
                          /\ Last(requests) \in {TagsPath, path}
           /\ s = <<"<", "a", ">", ";", ">", ";", "a">> =>
                 path = <<"a", ">", ";", "?">>
           /\ s = LinkGreedyBadUrl => Returned(NilSlice, UrlErr)

\* <a>;:a>;a : the greedy URL a>;:a does not parse, the lazy one would
C17_Witness ==
    /\ fetched[1].links = <<LinkGreedyBadUrl>>
    /\ ~UrlParse(<<"a">>).err
    /\ Returned(NilSlice, UrlErr)
    /\ Len(requests) = 1

----------------------------------------------------------------------------
(* A registry whose continuation chain ends, with requests that complete *)

\* a response comes; the page answered to request number MaxPages, if the
\* call gets that far, is not a continuing page
FiniteReceive ==
    /\ ReceiveResponse
    /\ Len(requests) = MaxPages => ~ContinuingPage(Last(fetched'))

FiniteNext ==
    \/ SendRequest
    \/ TransportFails
    \/ FiniteReceive
    \/ CheckStatus
    \/ DecodeBody
    \/ Paginate

\* the loop body, once MakeRepositoryTagsRequest has returned, runs to the
\* next call or to the return of GetRepositoryTags
LoopBodyRuns == pc = "ret" /\ pc' \in {"call", "done"}

\* every request is answered or fails, and the calling thread keeps running
FiniteSpec ==
    /\ Init
    /\ [][FiniteNext]_vars
    /\ WF_vars(SendRequest \/ TransportFails \/ FiniteReceive \/ CheckStatus \/ DecodeBody)
    /\ WF_pc(LoopBodyRuns)

\* C13: the call eventually returns, and then one request has gone out for
\* each page up to and including the first page that is not a continuing page
\* (no Link value, a failed fetch, nil Tags, or a first Link value that is
\* malformed or does not parse), and none after it.
C13_Terminates ==
    <>( /\ pc = "done"
        /\ Len(requests) = Len(fetched)
        /\ \A i \in 1..(Len(fetched) - 1) : ContinuingPage(fetched[i])
        /\ ~ContinuingPage(Last(fetched)) )

\* the call has returned the tags of a chain of MaxPages pages
C13_Witness ==
    /\ pc = "done"
    /\ out.err = NoErr
    /\ Len(requests) = MaxPages
    /\ Len(fetched) = MaxPages
    /\ \A i \in 1..(MaxPages - 1) : ContinuingPage(fetched[i])
    /\ Last(fetched).links = <<>>
    /\ out.result.elems = ConcatTags(fetched)
    /\ out.result.elems # <<>>

----------------------------------------------------------------------------
(* Two calls of GetRepositoryTags at once *)

\* /v2/q/tags/list : the tag-listing path of a second repository
OtherTagsPath ==
    <<"/", "v", "2", "/">> \o <<"q">> \o <<"/", "t", "a", "g", "s", "/", "l", "i", "s", "t">>

\* the locals and the history of the call that runs, put aside as call number
\* id; starts holds the tag-listing paths of call 1 and call 2
SavedCall(id, starts) ==
    [id |-> id, starts |-> starts, pc |-> pc, path |-> path, result |-> result,
     res |-> res, ret |-> ret, out |-> out, requests |-> requests,
     fetched |-> fetched, opened |-> opened, closed |-> closed]

\* what the registry answers to either call
ConcResponses ==
    { HttpResponse(StatusOK, NoErr, MkSlice(<<"a">>), <<LinkNext2>>),
      HttpResponse(StatusOK, NoErr, MkSlice(<<"b", "a">>), <<LinkAbsolute>>),
      HttpResponse(StatusOK, NoErr, MkSlice(<<"b", "a">>), <<>>),
      HttpResponse(StatusOK, NoErr, MkSlice(<<"a">>), <<LinkMalformed>>) }

\* two calls have been entered, on the same repository or on two; call 1
\* runs, call 2 waits at the top of its loop
ConcInit ==
    /\ pc = "call"
    /\ path = TagsPath
    /\ result = NilSlice
    /\ res = <<>>
    /\ ret = ZeroRet
    /\ out = ZeroOut
    /\ requests = <<>>
    /\ fetched = <<>>
    /\ opened = 0
    /\ closed = 0
    /\ \E p \in {TagsPath, OtherTagsPath} :
          other = [id |-> 2, starts |-> <<TagsPath, p>>, pc |-> "call", path |-> p,
                   result |-> NilSlice, res |-> <<>>, ret |-> ZeroRet, out |-> ZeroOut,
                   requests |-> <<>>, fetched |-> <<>>, opened |-> 0, closed |-> 0]

\* a response comes for the call that runs
ConcReceive ==
    /\ ReceiveResponse
    /\ Last(fetched') \in ConcResponses

\* mutant: path is one variable that the two calls share
Switch_SharedPath ==
    /\ other' = SavedCall(3 - other.id, other.starts)
    /\ pc' = other.pc
    /\ path' = path
    /\ result' = other.result
    /\ res' = other.res
    /\ ret' = other.ret
    /\ out' = other.out
    /\ requests' = other.requests
    /\ fetched' = other.fetched
    /\ opened' = other.opened
    /\ closed' = other.closed

\* the scheduler takes the call that runs off the processor and resumes the
\* other one: each call finds its own locals as it left them
Switch ==
    /\ other' = SavedCall(3 - other.id, other.starts)
    /\ pc' = other.pc
    /\ path' = other.path
    /\ result' = other.result
    /\ res' = other.res
    /\ ret' = other.ret
    /\ out' = other.out
    /\ requests' = other.requests
    /\ fetched' = other.fetched
    /\ opened' = other.opened
    /\ closed' = other.closed

ConcNext ==
    \/ SendRequest
    \/ ConcReceive
    \/ CheckStatus
    \/ DecodeBody
    \/ Paginate
    \/ Switch

ConcSpec == ConcInit /\ [][ConcNext]_vars

\* what MakeRepositoryTagsRequest returns for the outcome r of makeRequest
FetchReturn(r) ==
    IF r.transport \/ r.err # NoErr
    THEN [tags |-> NilSlice, links |-> <<>>, err |-> r.err]
    ELSE IF r.status # StatusOK
    THEN [tags |-> NilSlice, links |-> <<>>, err |-> StatusErr(r.status)]
    ELSE [tags |-> r.tags, links |-> r.links, err |-> NoErr]

\* a call run alone from the path start against the outcomes fs: the requests
\* it has issued and where it stands after the last of them
RECURSIVE Alone(_, _)
Alone(start, fs) ==
    IF fs = <<>>
    THEN [pc |-> "call", path |-> start, result |-> NilSlice, out |-> ZeroOut,
          requests |-> <<>>]
    ELSE LET b == Alone(start, AllButLast(fs))
             n == LoopBody(b.path, b.result, FetchReturn(Last(fs)))
         IN  [pc |-> n.pc, path |-> n.path, result |-> n.result, out |-> n.out,
              requests |-> Append(b.requests, b.path)]

\* the call with the locals and history c does what it does alone against the
\* outcomes it has received
AsAlone(start, c) ==
    LET a == Alone(start, c.fetched)
    IN  IF c.pc \in {"call", "done"}
        THEN /\ a.pc = c.pc
             /\ a.requests = c.requests
             /\ a.path = c.path
             /\ a.result = c.result
             /\ a.out = c.out
        ELSE LET b == Alone(start, IF c.pc = "sent" THEN c.fetched
                                   ELSE AllButLast(c.fetched))
             IN  /\ b.pc = "call"
                 /\ c.requests = Append(b.requests, b.path)
                 /\ c.result = b.result

\* C15: under every interleaving, each of the two calls has issued the
\* requests and holds the path, the aggregate and the return that a call run
\* alone has against the same responses.
C15_NoInterference ==
    /\ AsAlone(other.starts[3 - other.id], SavedCall(3 - other.id, other.starts))
    /\ AsAlone(other.starts[other.id], other)

\* both calls are in their second fetch, on different paths, with different
\* aggregates
C15_Witness ==
    /\ pc = "sent" /\ Len(requests) = 2
    /\ other.pc = "decode" /\ Len(other.requests) = 2
    /\ requests[2] # other.requests[2]
    /\ result # other.result

====
